---------------------------- MODULE Spec2Model ----------------------------
(***************************************************************************)
(* A model of webull_pnl/cli.py: the FIFO lot-matching engine              *)
(* (apply_to_lots, apply_expiration, apply_trade), the expiration          *)
(* synthesizer (build_expiration_trades), the report replay                *)
(* (compute_report), the trade normalizer (parse_csv and its helpers),     *)
(* the strategy key (build_strategy_key) and the position aggregator       *)
(* (build_position_rows).                                                  *)
(*                                                                         *)
(* Decimal amounts are modelled as integers (a price is a whole number of  *)
(* the smallest price unit), on which Decimal sums and products are exact; *)
(* a Decimal quotient is modelled by its digits, rounded as Decimal does.  *)
(***************************************************************************)
EXTENDS Integers, Sequences, FiniteSets, TLC

VARIABLES
    positions,   \* engine: match key -> tuple of lots (apply_trade's dict)
    last,        \* engine: the last apply_trade call: its arguments and results
    tally,       \* engine: per key, what the trades since the bucket was last
                 \*         expired add up to (net quantity, cash, realized P&L)
    nApplied,    \* engine: number of trades applied so far
    positionRows, \* engine: what build_position_rows returns for the map
    pc,          \* report: where compute_report is ("input", "replay", "done")
    trades,      \* report: the trade list load_trades returned
    asOf,        \* report: the as-of cutoff date
    expirations, \* report: what build_expiration_trades returned
    allTrades,   \* report: all_trades, sorted
    idx,         \* report: index in all_trades of the next trade to replay
    running,     \* report: the running realized total
    rows,        \* report: the ledger rows
    applied,     \* report: the trades replayed so far, with apply_trade's results
    keyArgs,     \* strategy key: the arguments of two build_strategy_key calls
    keyOut,      \* strategy key: the keys the two calls returned
    csv,         \* normalizer: the rows of the file and whether it is an options file
    parseOut     \* normalizer: what parse_csv returned, or that it raised

engineVars == <<last, tally, nApplied, positionRows>>

reportVars == <<pc, trades, asOf, expirations, allTrades, idx, running, rows, applied>>

keyVars == <<keyArgs, keyOut>>

parseVars == <<csv, parseOut>>

vars == <<positions, engineVars, reportVars, keyVars, parseVars>>

-----------------------------------------------------------------------------
(* Program constants *)

ZERO == 0

OPTION_MULTIPLIER == 100

STOCK_MULTIPLIER == 1

EXPIRE_SIDE == "Expire"

\* dt.time(23, 59, 59) in seconds since midnight
EXPIRATION_TIME == 86399

(* Bounds of the model *)

MaxQty == 2

PriceLow == 1

PriceHigh == 2

MaxTrades == 4

Sides == {"Buy", "Sell"}

Qtys == 1..MaxQty

Prices == {PriceLow, PriceHigh}

MaxInput == 2

ExpiryNear == 1

ExpiryFar == 2

StockKey == "stock:ABC"

OptionKey == "option:XYZ"

OptionKey2 == "option:UVW"

Keys == {StockKey, OptionKey}

ReportKeys == {StockKey, OptionKey, OptionKey2}

NoExpiry == -1

-----------------------------------------------------------------------------
(* Data model *)

\* class Lot
Lot(side, qty, price) == [side |-> side, qty |-> qty, price |-> price]

\* class Trade (the display fields instrument and option_kind are left out)
Trade(seq, timestamp, match_key, side, qty, price, multiplier, expiry) ==
    [seq |-> seq, timestamp |-> timestamp, match_key |-> match_key,
     side |-> side, qty |-> qty, price |-> price,
     multiplier |-> multiplier, expiry |-> expiry]

\* the multiplier build_stock_trade / build_option_trade give a trade
MultiplierOf(key) == IF key = StockKey THEN STOCK_MULTIPLIER ELSE OPTION_MULTIPLIER

\* the expiry build_stock_trade (none) / build_option_trade (the date in the
\* symbol) give a trade
ExpiryOf(key) ==
    IF key = StockKey THEN NoExpiry
    ELSE IF key = OptionKey THEN ExpiryNear ELSE ExpiryFar

Min(a, b) == IF a <= b THEN a ELSE b

-----------------------------------------------------------------------------
(* FIFO matching engine *)

\* apply_expiration: the loop over the lots, from lot i on
RECURSIVE ExpirationLoop(_, _, _, _, _)
ExpirationLoop(lots, i, multiplier, realized, closed_qty) ==
    IF i > Len(lots)
    THEN [lots |-> <<>>, realized |-> realized, closed_qty |-> closed_qty]
    ELSE LET lot == lots[i]
             pnl == IF lot.side = "Buy"
                    THEN (ZERO - lot.price) * lot.qty * multiplier
                    ELSE (lot.price - ZERO) * lot.qty * multiplier
         IN  ExpirationLoop(lots, i + 1, multiplier, realized + pnl,
                            closed_qty + lot.qty)

apply_expiration(lots, multiplier) ==
    IF lots = <<>>
    THEN [lots |-> <<>>, realized |-> ZERO, closed_qty |-> ZERO]
    ELSE ExpirationLoop(lots, 1, multiplier, ZERO, ZERO)

\* faulty variant: the per-unit P&L taken as trade price - lot price on both sides
PnlPerContract_SellOnly(lot_price, trade_side, trade_price) ==
    trade_price - lot_price

\* the per-unit P&L of closing a lot against a trade
PnlPerContract(lot_price, trade_side, trade_price) ==
    IF trade_side = "Buy" THEN lot_price - trade_price ELSE trade_price - lot_price

\* whether the loop of apply_to_lots closes (part of) this lot
Closes(remaining, lot, trade_side) ==
    remaining > ZERO /\ lot.side # trade_side

\* apply_to_lots: the loop over the lots, from lot i on
RECURSIVE MatchLoop(_, _, _, _, _, _, _, _, _)
MatchLoop(lots, i, trade_side, trade_price, multiplier, remaining, realized, closed_qty, updated) ==
    IF i > Len(lots)
    THEN [lots |-> updated, realized |-> realized, closed_qty |-> closed_qty,
          remaining |-> remaining]
    ELSE LET lot == lots[i] IN
         IF Closes(remaining, lot, trade_side)
         THEN LET match == Min(remaining, lot.qty)
                  pnl == PnlPerContract(lot.price, trade_side, trade_price)
                  leftover == lot.qty - match
              IN  MatchLoop(lots, i + 1, trade_side, trade_price, multiplier,
                            remaining - match,
                            realized + pnl * match * multiplier,
                            closed_qty + match,
                            IF leftover > ZERO
                            THEN Append(updated, Lot(lot.side, leftover, lot.price))
                            ELSE updated)
         ELSE MatchLoop(lots, i + 1, trade_side, trade_price, multiplier,
                        remaining, realized, closed_qty, Append(updated, lot))

Reverse(s) == [i \in 1..Len(s) |-> s[Len(s) + 1 - i]]

\* faulty variant: the newest lots are closed first
apply_to_lots_lifo(lots, trade_side, trade_qty, trade_price, multiplier) ==
    LET r == MatchLoop(Reverse(lots), 1, trade_side, trade_price, multiplier,
                       trade_qty, ZERO, ZERO, <<>>)
        kept == Reverse(r.lots)
        updated == IF r.remaining > ZERO
                   THEN Append(kept, Lot(trade_side, r.remaining, trade_price))
                   ELSE kept
    IN  [lots |-> updated, realized |-> r.realized, closed_qty |-> r.closed_qty]

\* faulty variant: the lot opened holds the trade's whole quantity, whatever of it
\* was matched
apply_to_lots_reopen(lots, trade_side, trade_qty, trade_price, multiplier) ==
    LET r == MatchLoop(lots, 1, trade_side, trade_price, multiplier,
                       trade_qty, ZERO, ZERO, <<>>)
    IN  [lots |-> Append(r.lots, Lot(trade_side, trade_qty, trade_price)),
         realized |-> r.realized, closed_qty |-> r.closed_qty]

apply_to_lots(lots, trade_side, trade_qty, trade_price, multiplier) ==
    LET r == MatchLoop(lots, 1, trade_side, trade_price, multiplier,
                       trade_qty, ZERO, ZERO, <<>>)
        updated == IF r.remaining > ZERO
                   THEN Append(r.lots, Lot(trade_side, r.remaining, trade_price))
                   ELSE r.lots
    IN  [lots |-> updated, realized |-> r.realized, closed_qty |-> r.closed_qty]

\* positions.get(key, ())
LotsOf(pos, key) == IF key \in DOMAIN pos THEN pos[key] ELSE <<>>

\* the dict after updated_positions[key] = lots
DictSet(pos, key, lots) ==
    [k \in DOMAIN pos \cup {key} |-> IF k = key THEN lots ELSE pos[k]]

\* faulty variant: the emptied bucket is stored instead of being popped
DictPop_KeepKey(pos, key) == [k \in DOMAIN pos \cup {key} |-> IF k = key THEN <<>> ELSE pos[k]]

\* the dict after updated_positions.pop(key, None)
DictPop(pos, key) == [k \in DOMAIN pos \ {key} |-> pos[k]]

apply_trade(pos, trade) ==
    LET lots == LotsOf(pos, trade.match_key)
        r == IF trade.side = EXPIRE_SIDE
             THEN apply_expiration(lots, trade.multiplier)
             ELSE apply_to_lots(lots, trade.side, trade.qty, trade.price,
                                trade.multiplier)
    IN  [positions |-> IF r.lots = lots THEN pos
                       ELSE IF r.lots # <<>>
                            THEN DictSet(pos, trade.match_key, r.lots)
                            ELSE DictPop(pos, trade.match_key),
         realized |-> r.realized, closed_qty |-> r.closed_qty]

-----------------------------------------------------------------------------
(* Position aggregator *)

\* the significant digits Decimal's default context keeps of a quotient
DecimalPrec == 28

\* the number of decimal digits of a positive integer
RECURSIVE NumDigits(_)
NumDigits(n) == IF n < 10 THEN 1 ELSE 1 + NumDigits(n \div 10)

\* long division: up to k further digits of rem / den; it stops when the
\* division comes out even, so the digits carry no trailing zero
RECURSIVE DivideLoop(_, _, _, _)
DivideLoop(rem, den, k, digits) ==
    IF k = 0 \/ rem = 0 THEN [digits |-> digits, rem |-> rem]
    ELSE DivideLoop((10 * rem) % den, den, k - 1,
                    Append(digits, (10 * rem) \div den))

\* one unit added in the last place of a digit string; a 9 turns into a
\* dropped trailing zero and carries on
RECURSIVE RoundUp(_)
RoundUp(digits) ==
    IF digits = <<>> THEN [digits |-> <<>>, carry |-> 1]
    ELSE IF digits[Len(digits)] = 9
         THEN RoundUp(SubSeq(digits, 1, Len(digits) - 1))
         ELSE [digits |-> [digits EXCEPT ![Len(digits)] = @ + 1], carry |-> 0]

\* Decimal.__truediv__ under the default context, for num >= den > 0: the
\* quotient to DecimalPrec significant digits, rounded half to even, as its
\* integer part and its decimals
DecimalDivide(num, den) ==
    LET whole == num \div den
        places == DecimalPrec - NumDigits(whole)
        d == DivideLoop(num % den, den, places, <<>>)
        last_digit == IF Len(d.digits) = places /\ places > 0
                      THEN d.digits[places] ELSE whole % 10
        up == \/ 2 * d.rem > den
              \/ 2 * d.rem = den /\ last_digit % 2 = 1
        r == RoundUp(d.digits)
    IN  IF up THEN [int |-> whole + r.carry, frac |-> r.digits]
        ELSE [int |-> whole, frac |-> d.digits]

\* faulty variant: the number of lots instead of their quantities
total_qty_count(lots) == Len(lots)

\* sum((lot.qty for lot in lots), ZERO)
RECURSIVE total_qty(_)
total_qty(lots) ==
    IF lots = <<>> THEN ZERO ELSE lots[1].qty + total_qty(Tail(lots))

\* sum((lot.price * lot.qty for lot in lots), ZERO)
RECURSIVE weighted(_)
weighted(lots) ==
    IF lots = <<>> THEN ZERO
    ELSE lots[1].price * lots[1].qty + weighted(Tail(lots))

\* the display fields of the first trade seen for a key (build_trade_index):
\* every trade of a key carries the same instrument and asset
InstrumentOf(key) ==
    IF key = StockKey THEN "ABC" ELSE IF key = OptionKey THEN "XYZ" ELSE "UVW"

AssetOf(key) == IF key = StockKey THEN "Stock" ELSE "Option"

\* class PositionRow (the display fields option_kind and expiry are left out)
PositionRow(instrument, asset, side, qty, avg_price) ==
    [instrument |-> instrument, asset |-> asset, side |-> side, qty |-> qty,
     avg_price |-> avg_price]

\* the keys build_position_rows emits a row for
Reported(pos) ==
    {key \in DOMAIN pos : pos[key] # <<>> /\ total_qty(pos[key]) > ZERO}

\* the row build_position_rows appends for a key
RowOf(pos, key) ==
    LET lots == pos[key] IN
    PositionRow(InstrumentOf(key), AssetOf(key), lots[1].side, total_qty(lots),
                DecimalDivide(weighted(lots), total_qty(lots)))

\* the order of the strings the sort key is made of
AssetRank(asset) == IF asset = "Option" THEN 0 ELSE 1

InstrumentRank(instrument) ==
    IF instrument = "ABC" THEN 0 ELSE IF instrument = "UVW" THEN 1 ELSE 2

SideRank(side) == IF side = "Buy" THEN 0 ELSE 1

\* (asset, instrument, side) of v < (asset, instrument, side) of w
RowLess(v, w) ==
    \/ AssetRank(v.asset) < AssetRank(w.asset)
    \/ /\ AssetRank(v.asset) = AssetRank(w.asset)
       /\ \/ InstrumentRank(v.instrument) < InstrumentRank(w.instrument)
          \/ /\ InstrumentRank(v.instrument) = InstrumentRank(w.instrument)
             /\ SideRank(v.side) < SideRank(w.side)

\* rows.sort(key=...) on the rows of distinct keys, least row first
RECURSIVE SortRows(_)
SortRows(unsorted) ==
    IF unsorted = {} THEN <<>>
    ELSE LET least == CHOOSE v \in unsorted :
                          \A w \in unsorted \ {v} : RowLess(v, w)
         IN  <<least>> \o SortRows(unsorted \ {least})

build_position_rows(pos) == SortRows({RowOf(pos, key) : key \in Reported(pos)})

-----------------------------------------------------------------------------
(* The engine driven by an arbitrary stream of trades *)

EmptyDict == [k \in {} |-> <<>>]

NoTally == [net |-> 0, cash |-> 0, realized |-> 0]

NoCall == [trade |-> Trade(0, 0, "", "", 0, 0, 0, NoExpiry), pre |-> EmptyDict,
           realized |-> 0, closed_qty |-> 0]

EngineIdle ==
    /\ last = NoCall
    /\ tally = [k \in Keys |-> NoTally]
    /\ nApplied = 0
    /\ positionRows = <<>>

ReportIdle ==
    /\ pc = "idle"
    /\ trades = <<>>
    /\ asOf = 0
    /\ expirations = <<>>
    /\ allTrades = <<>>
    /\ idx = 0
    /\ running = ZERO
    /\ rows = <<>>
    /\ applied = <<>>

KeyIdle ==
    /\ keyArgs = <<>>
    /\ keyOut = <<>>

NotParsed == [done |-> FALSE, error |-> FALSE, trades |-> <<>>, origins |-> <<>>, seq |-> 0]

ParseIdle ==
    /\ csv = [is_options |-> FALSE, rows |-> <<>>]
    /\ parseOut = NotParsed

InitEngine ==
    /\ positions = EmptyDict
    /\ EngineIdle
    /\ ReportIdle
    /\ KeyIdle
    /\ ParseIdle

\* apply_trade on a Buy/Sell trade (quantity > 0), and the open positions
\* reported from the map it leaves
ApplyRealTrade ==
    /\ nApplied < MaxTrades
    /\ \E key \in Keys, side \in Sides, qty \in Qtys, price \in Prices :
          LET trade == Trade(nApplied, 0, key, side, qty, price,
                             MultiplierOf(key), NoExpiry)
              r == apply_trade(positions, trade)
              t == tally[key]
              sign == IF side = "Buy" THEN 1 ELSE -1
          IN  /\ positions' = r.positions
              /\ positionRows' = build_position_rows(r.positions)
              /\ last' = [trade |-> trade, pre |-> positions,
                          realized |-> r.realized, closed_qty |-> r.closed_qty]
              /\ tally' = [tally EXCEPT ![key] =
                              [net |-> t.net + sign * qty,
                               cash |-> t.cash - sign * qty * price,
                               realized |-> t.realized + r.realized]]
    /\ nApplied' = nApplied + 1
    /\ UNCHANGED <<reportVars, keyVars, parseVars>>

\* apply_trade on an Expire trade (quantity 0, price 0), and the open
\* positions reported from the map it leaves
ApplyExpireTrade ==
    /\ nApplied < MaxTrades
    /\ \E key \in Keys :
          LET trade == Trade(nApplied, 0, key, EXPIRE_SIDE, ZERO, ZERO,
                             MultiplierOf(key), NoExpiry)
              r == apply_trade(positions, trade)
          IN  /\ positions' = r.positions
              /\ positionRows' = build_position_rows(r.positions)
              /\ last' = [trade |-> trade, pre |-> positions,
                          realized |-> r.realized, closed_qty |-> r.closed_qty]
              /\ tally' = [tally EXCEPT ![key] = NoTally]
    /\ nApplied' = nApplied + 1
    /\ UNCHANGED <<reportVars, keyVars, parseVars>>

Next == ApplyRealTrade \/ ApplyExpireTrade

Spec == InitEngine /\ [][Next]_vars

-----------------------------------------------------------------------------
(* Expiration synthesizer and report replay *)

\* seconds in a day: 23:59:59 is the last second of its day
SecondsPerDay == EXPIRATION_TIME + 1

\* dt.datetime.combine(date, time) as seconds
Combine(date, time) == date * SecondsPerDay + time

\* faulty variant: the expiration is stamped at the start of the expiry day
ExpirationTimestamp_DayStart(expiry) == Combine(expiry, 0)

\* expiration_time = dt.datetime.combine(trade.expiry, EXPIRATION_TIME)
ExpirationTimestamp(expiry) == Combine(expiry, EXPIRATION_TIME)

\* faulty variant: a contract expiring on the cutoff date itself is not expired
Expired_Strict(trade, as_of_date) ==
    ~(trade.expiry = NoExpiry \/ trade.expiry >= as_of_date)

\* the negation of "trade.expiry is None or trade.expiry > as_of_date"
Expired(trade, as_of_date) ==
    ~(trade.expiry = NoExpiry \/ trade.expiry > as_of_date)

RECURSIVE MaxSeq(_, _)
MaxSeq(ts, i) ==
    IF i = 1 THEN ts[1].seq
    ELSE LET m == MaxSeq(ts, i - 1) IN IF ts[i].seq > m THEN ts[i].seq ELSE m

\* the loop filling the dict "seen": its values in insertion order
RECURSIVE SeenLoop(_, _, _, _)
SeenLoop(ts, i, as_of_date, seen) ==
    IF i > Len(ts) THEN seen
    ELSE IF ~Expired(ts[i], as_of_date)
         THEN SeenLoop(ts, i + 1, as_of_date, seen)
         ELSE IF \E j \in 1..Len(seen) : seen[j].match_key = ts[i].match_key
              THEN SeenLoop(ts, i + 1, as_of_date, seen)
              ELSE SeenLoop(ts, i + 1, as_of_date, Append(seen, ts[i]))

\* the loop over seen.values() building the Expire trades
RECURSIVE ExpirationsLoop(_, _, _, _)
ExpirationsLoop(seen, i, seq, out) ==
    IF i > Len(seen) THEN out
    ELSE IF seen[i].expiry = NoExpiry
         THEN ExpirationsLoop(seen, i + 1, seq, out)
         ELSE ExpirationsLoop(seen, i + 1, seq + 1,
                 Append(out, Trade(seq, ExpirationTimestamp(seen[i].expiry),
                                   seen[i].match_key, EXPIRE_SIDE, ZERO, ZERO,
                                   seen[i].multiplier, seen[i].expiry)))

build_expiration_trades(ts, as_of_date) ==
    IF ts = <<>> THEN <<>>
    ELSE ExpirationsLoop(SeenLoop(ts, 1, as_of_date, <<>>), 1,
                         MaxSeq(ts, Len(ts)) + 1, <<>>)

\* the sort key (trade.timestamp, trade.seq), compared as tuples
KeyLess(a, b) ==
    \/ a.timestamp < b.timestamp
    \/ a.timestamp = b.timestamp /\ a.seq < b.seq

\* t put into a sorted list behind every trade whose key is not greater
RECURSIVE InsertSorted(_, _)
InsertSorted(sorted, t) ==
    IF sorted = <<>> THEN <<t>>
    ELSE IF KeyLess(t, sorted[1])
         THEN <<t>> \o sorted
         ELSE <<sorted[1]>> \o InsertSorted(Tail(sorted), t)

\* all_trades.sort(key=lambda trade: (trade.timestamp, trade.seq)): stable
RECURSIVE SortTrades(_, _)
SortTrades(ts, n) ==
    IF n = 0 THEN <<>> ELSE InsertSorted(SortTrades(ts, n - 1), ts[n])

\* class ReportRow (the display fields instrument, asset and option_kind are
\* left out)
ReportRow(trade, display_qty, closed_qty, realized, run) ==
    [timestamp |-> trade.timestamp, side |-> trade.side, qty |-> display_qty,
     price |-> trade.price, closed_qty |-> closed_qty, realized |-> realized,
     running |-> run]

\* faulty variant: no Expire trade gets a ledger row
SkipsRow_AnyExpire(trade, closed_qty) == trade.side = EXPIRE_SIDE

\* trade.side == EXPIRE_SIDE and closed_qty == ZERO
SkipsRow(trade, closed_qty) == trade.side = EXPIRE_SIDE /\ closed_qty = ZERO

TimesOfDay == {ZERO, EXPIRATION_TIME}

Days == ExpiryNear..ExpiryFar

InitReport ==
    /\ positions = EmptyDict
    /\ EngineIdle
    /\ pc = "input"
    /\ trades = <<>>
    /\ asOf \in (ExpiryNear - 1)..ExpiryFar
    /\ expirations = <<>>
    /\ allTrades = <<>>
    /\ idx = 0
    /\ running = ZERO
    /\ rows = <<>>
    /\ applied = <<>>
    /\ KeyIdle
    /\ ParseIdle

\* load_trades: one more filled row becomes a Trade, with the next sequence
\* number
LoadTrade ==
    /\ pc = "input"
    /\ Len(trades) < MaxInput
    /\ \E key \in ReportKeys, side \in Sides, price \in Prices,
          day \in Days, time \in TimesOfDay :
          trades' = Append(trades,
                           Trade(Len(trades), Combine(day, time), key, side, 1,
                                 price, MultiplierOf(key), ExpiryOf(key)))
    /\ UNCHANGED <<positions, engineVars, asOf, pc, expirations, allTrades,
                   idx, running, rows, applied, keyVars, parseVars>>

\* compute_report up to its loop: the expirations are added and the list is
\* sorted
BeginReport ==
    /\ pc = "input"
    /\ pc' = "replay"
    /\ expirations' = build_expiration_trades(trades, asOf)
    /\ allTrades' = SortTrades(trades \o expirations',
                               Len(trades) + Len(expirations'))
    /\ idx' = 1
    /\ positions' = EmptyDict
    /\ running' = ZERO
    /\ rows' = <<>>
    /\ UNCHANGED <<engineVars, trades, asOf, applied, keyVars, parseVars>>

\* one iteration of compute_report's loop
ReplayTrade ==
    /\ pc = "replay"
    /\ idx <= Len(allTrades)
    /\ LET trade == allTrades[idx]
           r == apply_trade(positions, trade)
           skip == SkipsRow(trade, r.closed_qty)
           run == running + r.realized
           display_qty == IF trade.side = EXPIRE_SIDE THEN r.closed_qty
                          ELSE trade.qty
       IN  /\ positions' = r.positions
           /\ running' = IF skip THEN running ELSE run
           /\ rows' = IF skip THEN rows
                      ELSE Append(rows, ReportRow(trade, display_qty,
                                                  r.closed_qty, r.realized, run))
           /\ applied' = Append(applied, [trade |-> trade,
                                          realized |-> r.realized,
                                          closed_qty |-> r.closed_qty])
    /\ idx' = idx + 1
    /\ UNCHANGED <<engineVars, pc, trades, asOf, expirations, allTrades, keyVars,
                   parseVars>>

\* compute_report returns rows, positions, running
EndReport ==
    /\ pc = "replay"
    /\ idx > Len(allTrades)
    /\ pc' = "done"
    /\ UNCHANGED <<positions, engineVars, trades, asOf, expirations, allTrades,
                   idx, running, rows, applied, keyVars, parseVars>>

NextReport == LoadTrade \/ BeginReport \/ ReplayTrade \/ EndReport

SpecReport == InitReport /\ [][NextReport]_vars

-----------------------------------------------------------------------------
(* Strategy match key *)

\* a missing root (None or "": "not root" holds of both); a root is the list
\* of its characters
NoRoot == <<>>

\* a missing expiry date (None)
NoDate == <<>>

\* a strike is held in thousandths, as the 8 digits of the symbol give it:
\* Decimal(str(int(strike_raw))) / Decimal("1000")
ThousandthsPerUnit == 1000

\* text.rstrip("0") on the three decimals of a strike
RECURSIVE RStripZeros(_)
RStripZeros(digits) ==
    IF digits # <<>> /\ digits[Len(digits)] = 0
    THEN RStripZeros(SubSeq(digits, 1, Len(digits) - 1))
    ELSE digits

\* format_qty on a strike: the integer part and the decimals left after the
\* trailing zeros (and then a bare ".") are stripped
format_qty(strike) ==
    LET frac == strike % ThousandthsPerUnit IN
    [int |-> strike \div ThousandthsPerUnit,
     frac |-> RStripZeros(<<frac \div 100, (frac \div 10) % 10, frac % 10>>)]

\* the order of the call/put flags as strings: "C" < "P"
FlagRank(call_put) == IF call_put = "C" THEN 0 ELSE 1

\* (v[0], v[1]) < (w[0], w[1]) on legs (call_put, strike)
LegLess(v, w) ==
    \/ FlagRank(v[1]) < FlagRank(w[1])
    \/ FlagRank(v[1]) = FlagRank(w[1]) /\ v[2] < w[2]

RECURSIVE InsertLeg(_, _)
InsertLeg(sorted, v) ==
    IF sorted = <<>> THEN <<v>>
    ELSE IF LegLess(v, sorted[1])
         THEN <<v>> \o sorted
         ELSE <<sorted[1]>> \o InsertLeg(Tail(sorted), v)

RECURSIVE SortLegsLoop(_, _)
SortLegsLoop(legs, n) ==
    IF n = 0 THEN <<>> ELSE InsertLeg(SortLegsLoop(legs, n - 1), legs[n])

\* faulty variant: the legs are joined in the order given
SortedLegs_Unsorted(legs) == legs

\* sorted(legs, key=lambda v: (v[0], v[1]))
SortedLegs(legs) == SortLegsLoop(legs, Len(legs))

\* the match key as the list of the parts the f-strings join with ":"; the
\* last part is the list of the leg texts joined with ","; a leg list that is
\* None is the empty list here ("if legs" is false of both)
build_strategy_key(name, option_kind, root, exp_date, legs) ==
    IF root = NoRoot \/ exp_date = NoDate
    THEN <<"strategy", name>>
    ELSE IF legs # <<>>
         THEN <<"strategy", option_kind, root, exp_date,
                [i \in 1..Len(legs) |->
                    <<SortedLegs(legs)[i][1], format_qty(SortedLegs(legs)[i][2])>>]>>
         ELSE <<"strategy", option_kind, root, exp_date>>

MaxLegs == 3

StrikeLow == 90500

StrikeHigh == 100000

LegChoices == {"C", "P"} \X {StrikeLow, StrikeHigh}

LegLists == UNION {[1..n -> LegChoices] : n \in 0..MaxLegs}

StrategyNames == {<<"S", "P", "Y", " ", "I", "r", "o", "n", " ", "C", "o", "n", "d", "o", "r">>}

StrategyKinds == {"IronCondor"}

Roots == {NoRoot, <<"S", "P", "Y">>}

ExpDates == {NoDate, <<2025, 1, 17>>}

InitKey ==
    /\ positions = EmptyDict
    /\ EngineIdle
    /\ ReportIdle
    /\ ParseIdle
    /\ keyOut = <<>>
    /\ \E name \in StrategyNames, kind \in StrategyKinds, root \in Roots,
          exp_date \in ExpDates, legs \in LegLists, other \in LegLists :
          keyArgs = [name |-> name, option_kind |-> kind, root |-> root,
                     exp_date |-> exp_date, legs |-> legs, other |-> other]

\* build_strategy_key called on the leg list and on the other leg list
BuildKeys ==
    /\ keyOut = <<>>
    /\ keyOut' = <<build_strategy_key(keyArgs.name, keyArgs.option_kind,
                                      keyArgs.root, keyArgs.exp_date, keyArgs.legs),
                   build_strategy_key(keyArgs.name, keyArgs.option_kind,
                                      keyArgs.root, keyArgs.exp_date, keyArgs.other)>>
    /\ UNCHANGED <<positions, engineVars, reportVars, keyArgs, parseVars>>

NextKey == BuildKeys

SpecKey == InitKey /\ [][NextKey]_vars

-----------------------------------------------------------------------------
(* Trade normalizer: strings are lists of characters *)

UpperChars == <<"A", "B", "C", "D", "E", "F", "G", "H", "I", "J", "K", "L", "M", "N", "O", "P", "Q", "R", "S", "T", "U", "V", "W", "X", "Y", "Z">>

LowerChars == <<"a", "b", "c", "d", "e", "f", "g", "h", "i", "j", "k", "l", "m", "n", "o", "p", "q", "r", "s", "t", "u", "v", "w", "x", "y", "z">>

DigitChars == <<"0", "1", "2", "3", "4", "5", "6", "7", "8", "9">>

IsUpper(c) == \E i \in 1..Len(UpperChars) : UpperChars[i] = c

IsDigit(c) == \E i \in 1..Len(DigitChars) : DigitChars[i] = c

DigitValue(c) == (CHOOSE i \in 1..Len(DigitChars) : DigitChars[i] = c) - 1

\* str.upper(), character by character
Upper(text) ==
    [i \in 1..Len(text) |->
        IF \E j \in 1..Len(LowerChars) : LowerChars[j] = text[i]
        THEN UpperChars[CHOOSE j \in 1..Len(LowerChars) : LowerChars[j] = text[i]]
        ELSE text[i]]

\* str.lower(), character by character
Lower(text) ==
    [i \in 1..Len(text) |->
        IF \E j \in 1..Len(UpperChars) : UpperChars[j] = text[i]
        THEN LowerChars[CHOOSE j \in 1..Len(UpperChars) : UpperChars[j] = text[i]]
        ELSE text[i]]

\* name.replace(" ", "")
RECURSIVE RemoveSpaces(_)
RemoveSpaces(text) ==
    IF text = <<>> THEN <<>>
    ELSE IF text[1] = " " THEN RemoveSpaces(Tail(text))
         ELSE <<text[1]>> \o RemoveSpaces(Tail(text))

\* needle in text
Contains(text, needle) ==
    \E i \in 1..(Len(text) - Len(needle) + 1) :
        SubSeq(text, i, i + Len(needle) - 1) = needle

\* int() of a list of digits
RECURSIVE IntOf(_)
IntOf(digits) ==
    IF digits = <<>> THEN 0
    ELSE IntOf(SubSeq(digits, 1, Len(digits) - 1)) * 10
         + DigitValue(digits[Len(digits)])

\* OPTION_RE = ^([A-Z]+)(\d{6})([CP])(\d{8})$ : the groups, or no match
SymbolTail == 15

OptionMatch(text) ==
    LET n == Len(text) - SymbolTail IN
    IF /\ n >= 1
       /\ \A i \in 1..n : IsUpper(text[i])
       /\ \A i \in (n + 1)..(n + 6) : IsDigit(text[i])
       /\ text[n + 7] \in {"C", "P"}
       /\ \A i \in (n + 8)..(n + 15) : IsDigit(text[i])
    THEN [matched |-> TRUE, root |-> SubSeq(text, 1, n),
          yymmdd |-> SubSeq(text, n + 1, n + 6), call_put |-> text[n + 7],
          strike_raw |-> SubSeq(text, n + 8, n + 15)]
    ELSE [matched |-> FALSE, root |-> <<>>, yymmdd |-> <<>>, call_put |-> "",
          strike_raw |-> <<>>]

IsLeapYear(y) == (y % 4 = 0 /\ y % 100 # 0) \/ y % 400 = 0

DaysInMonth(y, m) ==
    IF m = 2 THEN (IF IsLeapYear(y) THEN 29 ELSE 28)
    ELSE IF m \in {4, 6, 9, 11} THEN 30 ELSE 31

\* dt.datetime.strptime(yymmdd, "%y%m%d").date(): the date, or ValueError
Strptime(yymmdd) ==
    LET yy == IntOf(SubSeq(yymmdd, 1, 2))
        y == IF yy < 69 THEN 2000 + yy ELSE 1900 + yy
        m == IntOf(SubSeq(yymmdd, 3, 4))
        d == IntOf(SubSeq(yymmdd, 5, 6))
    IN  IF m >= 1 /\ m <= 12 /\ d >= 1 /\ d <= DaysInMonth(y, m)
        THEN [error |-> FALSE, date |-> <<y, m, d>>]
        ELSE [error |-> TRUE, date |-> NoDate]

\* parse_option_symbol: None (parsed FALSE), the parsed fields, or ValueError
\* raised by strptime (error TRUE)
parse_option_symbol(symbol) ==
    LET match == OptionMatch(Upper(symbol))
        exp == Strptime(match.yymmdd)
    IN  IF ~match.matched
        THEN [error |-> FALSE, parsed |-> FALSE, root |-> NoRoot,
              exp_date |-> NoDate, call_put |-> "", strike |-> 0]
        ELSE IF exp.error
             THEN [error |-> TRUE, parsed |-> FALSE, root |-> NoRoot,
                   exp_date |-> NoDate, call_put |-> "", strike |-> 0]
             ELSE [error |-> FALSE, parsed |-> TRUE, root |-> match.root,
                   exp_date |-> exp.date, call_put |-> match.call_put,
                   strike |-> IntOf(match.strike_raw)]

strategy_kind_from_name(name) ==
    LET lowered == Lower(RemoveSpaces(name)) IN
    IF Contains(lowered, <<"i", "r", "o", "n", "c", "o", "n", "d", "o", "r">>) THEN "IronCondor"
    ELSE IF Contains(lowered, <<"c", "o", "n", "d", "o", "r">>) THEN "Condor"
    ELSE IF Contains(lowered, <<"b", "u", "t", "t", "e", "r", "f", "l", "y">>) THEN "Butterfly"
    ELSE IF Contains(lowered, <<"s", "t", "r", "a", "d", "d", "l", "e">>) THEN "Straddle"
    ELSE IF Contains(lowered, <<"s", "t", "r", "a", "n", "g", "l", "e">>) THEN "Strangle"
    ELSE IF Contains(lowered, <<"s", "p", "r", "e", "a", "d">>) THEN "Spread"
    ELSE "Strategy"

\* extract_core_fields: whether the row is dropped (None); the fields of the
\* model's rows are already stripped and parsed (Filled and Price are
\* numbers, the fill time is the Placed Time)
CoreDropped(row) ==
    \/ row.Status # "" /\ row.Status # "filled"
    \/ row.Side \notin {"Buy", "Sell"}
    \/ row.Filled <= ZERO

\* the Placed Times of the parent rows: a name and no symbol
ParentTimes(csv_rows) ==
    {csv_rows[i].Placed : i \in {j \in 1..Len(csv_rows) :
        csv_rows[j].Name # <<>> /\ csv_rows[j].Symbol = <<>>}}

NoMeta == [root |-> NoRoot, exp_date |-> NoDate, legs |-> <<>>]

\* build_strategy_meta: the loop over the rows, from row i on
RECURSIVE MetaLoop(_, _, _, _)
MetaLoop(csv_rows, i, parent_times, meta) ==
    IF i > Len(csv_rows) THEN [error |-> FALSE, meta |-> meta]
    ELSE LET row == csv_rows[i] IN
         IF row.Placed \notin parent_times \/ row.Symbol = <<>>
         THEN MetaLoop(csv_rows, i + 1, parent_times, meta)
         ELSE LET p == parse_option_symbol(row.Symbol) IN
              IF p.error THEN [error |-> TRUE, meta |-> meta]
              ELSE IF ~p.parsed THEN MetaLoop(csv_rows, i + 1, parent_times, meta)
              ELSE LET entry == IF row.Placed \in DOMAIN meta
                                THEN meta[row.Placed] ELSE NoMeta
                       updated ==
                           [root |-> IF entry.root = NoRoot THEN p.root
                                     ELSE entry.root,
                            exp_date |-> IF entry.exp_date = NoDate THEN p.exp_date
                                         ELSE entry.exp_date,
                            legs |-> Append(entry.legs, <<p.call_put, p.strike>>)]
                   IN  MetaLoop(csv_rows, i + 1, parent_times,
                                DictSet(meta, row.Placed, updated))

build_strategy_meta(csv_rows, parent_times) ==
    MetaLoop(csv_rows, 1, parent_times, [k \in {} |-> NoMeta])

\* the fields of class Trade the normalizer sets besides those of Trade(...)
Classified(trade, asset, option_kind) ==
    [seq |-> trade.seq, timestamp |-> trade.timestamp,
     match_key |-> trade.match_key, side |-> trade.side, qty |-> trade.qty,
     price |-> trade.price, multiplier |-> trade.multiplier,
     expiry |-> trade.expiry, asset |-> asset, option_kind |-> option_kind]

build_strategy_trade(seq, row, meta) ==
    LET option_kind == strategy_kind_from_name(row.Name) IN
    Classified(Trade(seq, row.Placed,
                     build_strategy_key(row.Name, option_kind, meta.root,
                                        meta.exp_date, meta.legs),
                     row.Side, row.Filled, row.Price, OPTION_MULTIPLIER,
                     meta.exp_date),
               "Option Strategy", option_kind)

\* build_option_trade: the trade, or the ValueError of parse_option_symbol
build_option_trade(seq, row) ==
    LET p == parse_option_symbol(row.Symbol) IN
    [error |-> p.error,
     trade |-> Classified(Trade(seq, row.Placed, <<"option", row.Symbol>>,
                                row.Side, row.Filled, row.Price,
                                OPTION_MULTIPLIER,
                                IF p.parsed THEN p.exp_date ELSE NoDate),
                          "Option",
                          IF p.parsed
                          THEN (IF p.call_put = "C" THEN "Call" ELSE "Put")
                          ELSE "Option")]

build_stock_trade(seq, row) ==
    Classified(Trade(seq, row.Placed, <<"stock", row.Symbol>>, row.Side,
                     row.Filled, row.Price, STOCK_MULTIPLIER, NoDate),
               "Stock", "")

\* placed in parent_times and not name
SkipsLeg(row, parent_times) == row.Placed \in parent_times /\ row.Name = <<>>

\* parse_csv: the loop over the rows, from row i on; origins[k] is the row
\* trades[k] was made from
RECURSIVE ParseLoop(_, _, _, _, _, _, _, _)
ParseLoop(csv_rows, i, is_options, parent_times, meta, trades_, origins, seq) ==
    IF i > Len(csv_rows)
    THEN [done |-> TRUE, error |-> FALSE, trades |-> trades_,
          origins |-> origins, seq |-> seq]
    ELSE LET row == csv_rows[i] IN
         IF CoreDropped(row)
         THEN ParseLoop(csv_rows, i + 1, is_options, parent_times, meta, trades_,
                        origins, seq)
         ELSE IF is_options
         THEN IF row.Name # <<>> /\ row.Symbol = <<>>
              THEN ParseLoop(csv_rows, i + 1, is_options, parent_times, meta,
                             Append(trades_, build_strategy_trade(seq, row,
                                 IF row.Placed \in DOMAIN meta
                                 THEN meta[row.Placed] ELSE NoMeta)),
                             Append(origins, i), seq + 1)
              ELSE IF SkipsLeg(row, parent_times) \/ row.Symbol = <<>>
              THEN ParseLoop(csv_rows, i + 1, is_options, parent_times, meta,
                             trades_, origins, seq)
              ELSE LET b == build_option_trade(seq, row) IN
                   IF b.error
                   THEN [done |-> TRUE, error |-> TRUE, trades |-> <<>>,
                         origins |-> <<>>, seq |-> seq]
                   ELSE ParseLoop(csv_rows, i + 1, is_options, parent_times, meta,
                                  Append(trades_, b.trade), Append(origins, i),
                                  seq + 1)
         ELSE IF row.Symbol = <<>>
              THEN ParseLoop(csv_rows, i + 1, is_options, parent_times, meta,
                             trades_, origins, seq)
              ELSE ParseLoop(csv_rows, i + 1, is_options, parent_times, meta,
                             Append(trades_, build_stock_trade(seq, row)),
                             Append(origins, i), seq + 1)

\* parse_csv from the rows on (lines 327-371): the trades and the next
\* sequence number, or the ValueError that left it
parse_csv(csv_rows, is_options, seq_start) ==
    LET parent_times == IF is_options THEN ParentTimes(csv_rows) ELSE {}
        m == IF is_options THEN build_strategy_meta(csv_rows, parent_times)
             ELSE [error |-> FALSE, meta |-> [k \in {} |-> NoMeta]]
    IN  IF m.error
        THEN [done |-> TRUE, error |-> TRUE, trades |-> <<>>, origins |-> <<>>,
              seq |-> seq_start]
        ELSE ParseLoop(csv_rows, 1, is_options, parent_times, m.meta, <<>>, <<>>,
                       seq_start)

MaxRows == 3

PlacedFirst == 1

PlacedSecond == 2

PlacedTimes == {PlacedFirst, PlacedSecond}

\* symbols: none, a call, a put, a symbol of the grammar whose date is the
\* 32nd of month 13, and a symbol outside the grammar
SymbolCall == <<"S", "P", "Y", "2", "5", "0", "1", "1", "7", "C", "0", "0", "1", "0", "0", "0", "0", "0">>

SymbolPut == <<"S", "P", "Y", "2", "5", "0", "1", "1", "7", "P", "0", "0", "0", "9", "0", "5", "0", "0">>

SymbolBadDate == <<"S", "P", "Y", "2", "5", "1", "3", "3", "2", "C", "0", "0", "1", "0", "0", "0", "0", "0">>

SymbolPlain == <<"S", "P", "Y">>

Symbols == {<<>>, SymbolCall, SymbolPut, SymbolBadDate, SymbolPlain}

Names == {<<>>, <<"S", "P", "Y", " ", "I", "r", "o", "n", " ", "C", "o", "n", "d", "o", "r">>, <<"S", "P", "Y", " ", "C", "a", "l", "l">>}

Statuses == {"filled", "cancelled"}

InitParse ==
    /\ positions = EmptyDict
    /\ EngineIdle
    /\ ReportIdle
    /\ KeyIdle
    /\ csv \in [is_options : BOOLEAN, rows : {<<>>}]
    /\ parseOut = NotParsed

\* csv.DictReader yields one more row of the file
ReadRow ==
    /\ ~parseOut.done
    /\ Len(csv.rows) < MaxRows
    /\ \E status \in Statuses, name \in Names, symbol \in Symbols,
          placed \in PlacedTimes :
          csv' = [csv EXCEPT !.rows = Append(@,
                    [Status |-> status, Side |-> "Buy", Filled |-> 1,
                     Price |-> PriceLow, Placed |-> placed, Symbol |-> symbol,
                     Name |-> name])]
    /\ UNCHANGED <<positions, engineVars, reportVars, keyVars, parseOut>>

\* parse_csv on the rows read
ParseCsv ==
    /\ ~parseOut.done
    /\ parseOut' = parse_csv(csv.rows, csv.is_options, 0)
    /\ UNCHANGED <<positions, engineVars, reportVars, keyVars, csv>>

NextParse == ReadRow \/ ParseCsv

SpecParse == InitParse /\ [][NextParse]_vars

-----------------------------------------------------------------------------
(* Properties of the engine *)

RECURSIVE PrefixQty(_, _)
PrefixQty(lots, k) == IF k = 0 THEN 0 ELSE PrefixQty(lots, k - 1) + lots[k].qty

TotalQty(lots) == PrefixQty(lots, Len(lots))

RECURSIVE SideValue(_, _, _)
SideValue(lots, side, k) ==
    IF k = 0 THEN 0
    ELSE SideValue(lots, side, k - 1)
         + (IF lots[k].side = side THEN lots[k].price * lots[k].qty ELSE 0)

SingleSided(lots) == \A i, j \in 1..Len(lots) : lots[i].side = lots[j].side

\* C1: starting from an empty position map, after any sequence of Buy/Sell
\* trades (quantity > 0) and Expire trades applied with apply_trade, every
\* bucket of the map holds lots of one side only.
C1_SingleSided == \A k \in DOMAIN positions : SingleSided(positions[k])

\* a close against a bucket of two lots has left lots behind, and the other
\* bucket is held too
C1_Witness ==
    /\ last.trade.side \in Sides
    /\ last.closed_qty > 0
    /\ DOMAIN positions = Keys
    /\ Len(LotsOf(last.pre, last.trade.match_key)) >= 2
    /\ \E k \in Keys : Len(positions[k]) >= 2

\* C2: when the Buy/Sell trades applied in order to one match key from an
\* empty bucket add up to zero net quantity, the realized P&L they returned
\* adds up to (sell proceeds - buy cost) * multiplier and the bucket is empty,
\* in whatever order the trades were applied.
C2_Conservation ==
    \A k \in Keys :
        tally[k].net = 0 =>
            /\ tally[k].realized = tally[k].cash * MultiplierOf(k)
            /\ k \notin DOMAIN positions

\* a trade has just closed the last two lots of a bucket, at a profit or loss
C2_Witness ==
    /\ last.trade.side \in Sides
    /\ tally[last.trade.match_key].net = 0
    /\ tally[last.trade.match_key].realized # 0
    /\ Len(LotsOf(last.pre, last.trade.match_key)) >= 2

\* the number of leading lots whose quantities together fit in qty
FullyConsumed(lots, qty) ==
    CHOOSE k \in 0..Len(lots) :
        /\ PrefixQty(lots, k) <= qty
        /\ k < Len(lots) => PrefixQty(lots, k + 1) > qty

\* the per-unit P&L of section 4.2
UnitPnl(side, trade_price, lot_price) ==
    IF side = "Sell" THEN trade_price - lot_price ELSE lot_price - trade_price

RECURSIVE ClosedPnl(_, _, _, _)
ClosedPnl(lots, k, side, trade_price) ==
    IF k = 0 THEN 0
    ELSE ClosedPnl(lots, k - 1, side, trade_price)
         + UnitPnl(side, trade_price, lots[k].price) * lots[k].qty

\* the last call was a Buy/Sell trade against a bucket of opposite-side lots
ClosingCall ==
    /\ last.trade.side \in Sides
    /\ LotsOf(last.pre, last.trade.match_key) # <<>>
    /\ \A i \in 1..Len(LotsOf(last.pre, last.trade.match_key)) :
          LotsOf(last.pre, last.trade.match_key)[i].side # last.trade.side

\* C3: a Buy/Sell trade closing against a bucket of opposite-side lots
\* consumes them oldest first: the first k lots go completely, the next one
\* at most partially (keeping price, side and its place at the front of what
\* remains), the later ones stay as they were and in order; closedQty is
\* min(trade quantity, bucket quantity) and realized is the sum over the
\* matched quantities of the per-unit P&L times the multiplier.
C3_FifoClose ==
    ClosingCall =>
        LET t == last.trade
            pre == LotsOf(last.pre, t.match_key)
            post == LotsOf(positions, t.match_key)
            n == Len(pre)
            k == FullyConsumed(pre, t.qty)
            part == IF k < n THEN t.qty - PrefixQty(pre, k) ELSE 0
            remaining ==
                IF k < n
                THEN <<Lot(pre[k + 1].side, pre[k + 1].qty - part, pre[k + 1].price)>>
                     \o SubSeq(pre, k + 2, n)
                ELSE <<>>
            opened ==
                IF t.qty > TotalQty(pre)
                THEN <<Lot(t.side, t.qty - TotalQty(pre), t.price)>>
                ELSE <<>>
        IN  /\ post = remaining \o opened
            /\ last.closed_qty = Min(t.qty, TotalQty(pre))
            /\ last.realized =
                  ( ClosedPnl(pre, k, t.side, t.price)
                    + (IF k < n
                       THEN UnitPnl(t.side, t.price, pre[k + 1].price) * part
                       ELSE 0) ) * t.multiplier

\* a close consumed the first lot completely and the second one in part, the
\* two lots having different prices
C3_Witness ==
    /\ ClosingCall
    /\ LET pre == LotsOf(last.pre, last.trade.match_key)
           post == LotsOf(positions, last.trade.match_key)
       IN  /\ Len(pre) >= 2
           /\ pre[1].price # pre[2].price
           /\ last.trade.qty > pre[1].qty
           /\ last.trade.qty < pre[1].qty + pre[2].qty
           /\ Len(post) = Len(pre) - 1

\* C4: an Expire trade applied to a non-empty bucket removes the key from
\* the position map and returns closedQty = the lots' total quantity and
\* realized = (value of the Sell lots - value of the Buy lots) * multiplier;
\* applied to a key without a bucket it returns 0, 0 and the input map.
C4_Expire ==
    last.trade.side = EXPIRE_SIDE =>
        LET key == last.trade.match_key
            pre == LotsOf(last.pre, key)
        IN  IF key \in DOMAIN last.pre
            THEN /\ DOMAIN positions = DOMAIN last.pre \ {key}
                 /\ \A k \in DOMAIN positions : positions[k] = last.pre[k]
                 /\ last.closed_qty = TotalQty(pre)
                 /\ last.realized =
                       ( SideValue(pre, "Sell", Len(pre))
                         - SideValue(pre, "Buy", Len(pre)) ) * last.trade.multiplier
            ELSE /\ last.realized = 0
                 /\ last.closed_qty = 0
                 /\ positions = last.pre

\* an Expire trade has closed a bucket of two lots while the other key held
\* a bucket
C4_Witness ==
    /\ last.trade.side = EXPIRE_SIDE
    /\ Len(LotsOf(last.pre, last.trade.match_key)) >= 2
    /\ last.closed_qty >= 2
    /\ Cardinality(DOMAIN last.pre) = 2
    /\ Cardinality(DOMAIN positions) = 1

Abs(n) == IF n < 0 THEN -n ELSE n

\* the side of a bucket whose Buy quantity less Sell quantity is net
NetSide(net) == IF net > 0 THEN "Buy" ELSE "Sell"

\* sum of lot price * lot qty over a bucket
LotValue(lots) ==
    SideValue(lots, "Buy", Len(lots)) + SideValue(lots, "Sell", Len(lots))

\* the position rows reported for a key
RowsOf(key) ==
    {i \in 1..Len(positionRows) :
        positionRows[i].instrument = InstrumentOf(key)}

\* value - dec * q in units of the last of `places` decimals of dec, worked
\* out digit by digit from decimal i on, r being the difference so far; once
\* beyond q the difference only grows, and is returned as it is
RECURSIVE ResidueLoop(_, _, _, _, _)
ResidueLoop(frac, q, i, places, r) ==
    IF i > places \/ Abs(r) > q THEN r
    ELSE IF i > Len(frac) /\ r = 0 THEN 0
    ELSE ResidueLoop(frac, q, i + 1, places,
                     10 * r - q * (IF i <= Len(frac) THEN frac[i] ELSE 0))

Residue(dec, q, value, places) ==
    ResidueLoop(dec.frac, q, 1, places, value - dec.int * q)

\* the bucket of every key holds what its trades since the last expiration
\* net to, on the side of the larger total, and is absent when they net to 0
BucketIsNet ==
    \A k \in Keys :
       LET lots == LotsOf(positions, k)
           net == tally[k].net
       IN  /\ TotalQty(lots) = Abs(net)
           /\ \A i \in 1..Len(lots) : lots[i].side = NetSide(net)
           /\ k \notin DOMAIN positions <=> net = 0

\* build_position_rows reports one row of that quantity and side for a key
\* with a bucket, and none for an absent key
RowIsNet ==
    \A k \in Keys :
       LET net == tally[k].net IN
       IF net = 0 THEN RowsOf(k) = {}
       ELSE /\ Cardinality(RowsOf(k)) = 1
            /\ \A i \in RowsOf(k) :
                  /\ positionRows[i].qty = Abs(net)
                  /\ positionRows[i].side = NetSide(net)

\* the key's row has an average price whose product with the quantity is the
\* sum of lot price * lot qty
AvgExact(k) ==
    \A i \in RowsOf(k) :
       LET avg_price == positionRows[i].avg_price IN
       Residue(avg_price, positionRows[i].qty,
               LotValue(LotsOf(positions, k)), Len(avg_price.frac)) = 0

\* the key's row has an average price of at most DecimalPrec significant
\* digits, within half a unit of the last of them of the sum of lot price
\* * lot qty over the quantity
AvgRounded(k) ==
    \A i \in RowsOf(k) :
       LET avg_price == positionRows[i].avg_price
           q == positionRows[i].qty
           value == LotValue(LotsOf(positions, k))
           places == DecimalPrec - NumDigits(value \div q)
       IN  /\ Len(avg_price.frac) <= places
           /\ 2 * Abs(Residue(avg_price, q, value, places)) <= q

\* C11: after any sequence of Buy/Sell trades on a key since its bucket was
\* last empty or expired, the bucket's total quantity is |Buy quantity -
\* Sell quantity|, its side is Buy when the difference is positive and Sell
\* when negative, the key is absent exactly when the difference is zero, and
\* build_position_rows reports that quantity and side with avg_price *
\* quantity = sum of lot price * lot qty, and no row for an absent key.
C11_PositionIsNet ==
    /\ BucketIsNet
    /\ RowIsNet
    /\ \A k \in Keys : AvgExact(k)

\* C11 (amended): the same, with avg_price the quotient of the sum of lot
\* price * lot qty by the quantity rounded to 28 significant digits, so that
\* avg_price * quantity is within quantity * half a unit of the 28th digit
\* of the sum rather than equal to it.
C11_PositionIsNetRounded ==
    /\ BucketIsNet
    /\ RowIsNet
    /\ \A k \in Keys : AvgRounded(k)

\* a bucket of two lots, left by trades of both sides that realized a
\* profit or loss, is reported in a row whose average price was rounded,
\* next to the row of the other key
C11_Witness ==
    /\ Len(positionRows) = 2
    /\ \E k \in Keys :
          /\ Len(LotsOf(positions, k)) >= 2
          /\ tally[k].realized # 0
          /\ ~AvgExact(k)

-----------------------------------------------------------------------------
(* Properties of the expiration synthesizer and the report *)

\* the indices of the input trades with this match key
TradesOf(key) == {i \in 1..Len(trades) : trades[i].match_key = key}

\* all trades of the key carry one expiry date E <= cutoff, and its real
\* trades are timestamped at or before E 23:59:59
SettlesAtExpiry(key) ==
    /\ TradesOf(key) # {}
    /\ \A i \in TradesOf(key) :
          /\ trades[i].expiry # NoExpiry
          /\ trades[i].expiry <= asOf
          /\ \A j \in TradesOf(key) : trades[j].expiry = trades[i].expiry
          /\ trades[i].timestamp <= Combine(trades[i].expiry, EXPIRATION_TIME)

IsExpireOf(a, key) == a.trade.side = EXPIRE_SIDE /\ a.trade.match_key = key

IsRealOf(a, key) == a.trade.side \in Sides /\ a.trade.match_key = key

\* C5: for a match key whose trades all carry one expiry date E <= cutoff
\* and whose real trades are all timestamped at or before E 23:59:59,
\* compute_report applies the key's synthetic Expire after every real trade
\* of the key (a real trade at exactly E 23:59:59 included), and the final
\* position map holds no lots for the key.
C5_ExpireSettlesLast ==
    \A key \in ReportKeys :
        (pc \in {"replay", "done"} /\ SettlesAtExpiry(key)) =>
            /\ \A i, j \in 1..Len(applied) :
                  (IsExpireOf(applied[i], key) /\ IsRealOf(applied[j], key)) => j < i
            /\ pc = "done" =>
                  /\ \E i \in 1..Len(applied) : IsExpireOf(applied[i], key)
                  /\ Cardinality({j \in 1..Len(applied) : IsRealOf(applied[j], key)})
                        = Cardinality(TradesOf(key))
                  /\ key \notin DOMAIN positions

\* the report is done for a key with a real trade at exactly E 23:59:59 and
\* an earlier one, and the Expire closed what they left open
C5_Witness ==
    /\ pc = "done"
    /\ \E key \in ReportKeys :
          /\ SettlesAtExpiry(key)
          /\ Cardinality(TradesOf(key)) >= 2
          /\ \E i \in TradesOf(key) :
                trades[i].timestamp = Combine(trades[i].expiry, EXPIRATION_TIME)
          /\ \E i \in 1..Len(applied) :
                IsExpireOf(applied[i], key) /\ applied[i].closed_qty > 0

\* the keys that have at least one input trade with expiry <= cutoff
ExpiringKeys ==
    {trades[i].match_key : i \in {j \in 1..Len(trades) :
        trades[j].expiry # NoExpiry /\ trades[j].expiry <= asOf}}

\* C6: build_expiration_trades returns exactly one trade for each match key
\* that has an input trade with expiry <= cutoff and none for any other key;
\* each has side Expire, quantity 0, price 0 and timestamp 23:59:59 on an
\* expiry date <= cutoff, and their sequence numbers are max(seq)+1, +2, ...,
\* each greater than every input sequence number.
C6_OneExpirePerKey ==
    pc \in {"replay", "done"} =>
        /\ \A key \in ReportKeys :
              Cardinality({i \in 1..Len(expirations) :
                              expirations[i].match_key = key})
                 = IF key \in ExpiringKeys THEN 1 ELSE 0
        /\ \A i \in 1..Len(expirations) :
              LET e == expirations[i] IN
              /\ e.side = EXPIRE_SIDE
              /\ e.qty = 0
              /\ e.price = 0
              /\ e.timestamp % SecondsPerDay = EXPIRATION_TIME
              /\ e.timestamp \div SecondsPerDay <= asOf
              /\ e.timestamp \div SecondsPerDay = e.expiry
              /\ \A j \in 1..Len(trades) : e.seq > trades[j].seq
              /\ \E m \in 1..Len(trades) :
                    /\ \A j \in 1..Len(trades) : trades[j].seq <= trades[m].seq
                    /\ e.seq = trades[m].seq + i

\* two keys got an Expire each, while the list also held nothing for the
\* stock key
C6_Witness ==
    /\ pc = "replay"
    /\ Len(expirations) = 2
    /\ Len(trades) = 2
    /\ expirations[1].match_key # expirations[2].match_key

\* the replayed trades that get a ledger row
RECURSIVE Ledgered(_, _)
Ledgered(log, n) ==
    IF n = 0 THEN <<>>
    ELSE IF log[n].trade.side = EXPIRE_SIDE /\ log[n].closed_qty = 0
         THEN Ledgered(log, n - 1)
         ELSE Append(Ledgered(log, n - 1), log[n])

RECURSIVE SumRealized(_, _)
SumRealized(log, n) ==
    IF n = 0 THEN 0 ELSE SumRealized(log, n - 1) + log[n].realized

\* C9: compute_report emits exactly one ledger row, in (timestamp, sequence)
\* replay order, for every real trade and every Expire trade that closed a
\* positive quantity, and none for an Expire that closed nothing; each row's
\* running total is the previous row's (0 before the first) plus the row's
\* realized P&L, and the final total is the sum of the realized P&L of all
\* replayed trades, skipped Expires included.
C9_Ledger ==
    pc \in {"replay", "done"} =>
        LET kept == Ledgered(applied, Len(applied)) IN
        /\ Len(rows) = Len(kept)
        /\ \A i \in 1..Len(rows) :
              /\ rows[i].timestamp = kept[i].trade.timestamp
              /\ rows[i].side = kept[i].trade.side
              /\ rows[i].price = kept[i].trade.price
              /\ rows[i].realized = kept[i].realized
              /\ rows[i].closed_qty = kept[i].closed_qty
              /\ rows[i].qty = IF kept[i].trade.side = EXPIRE_SIDE
                               THEN kept[i].closed_qty ELSE kept[i].trade.qty
              /\ rows[i].running =
                    (IF i = 1 THEN 0 ELSE rows[i - 1].running) + rows[i].realized
        /\ \A i, j \in 1..Len(applied) :
              i < j =>
                 \/ applied[i].trade.timestamp < applied[j].trade.timestamp
                 \/ /\ applied[i].trade.timestamp = applied[j].trade.timestamp
                    /\ applied[i].trade.seq < applied[j].trade.seq
        /\ pc = "done" =>
              /\ Len(applied) = Len(trades) + Len(expirations)
              /\ \A i \in 1..Len(trades) :
                    \E j \in 1..Len(applied) : applied[j].trade = trades[i]
              /\ \A i \in 1..Len(expirations) :
                    \E j \in 1..Len(applied) : applied[j].trade = expirations[i]
              /\ running = SumRealized(applied, Len(applied))

\* a report is done in which one Expire closed a position at a loss or gain
\* and got a row, another closed nothing and got none
C9_Witness ==
    /\ pc = "done"
    /\ Len(rows) = 3
    /\ running # 0
    /\ \E i \in 1..Len(rows) : rows[i].side = EXPIRE_SIDE /\ rows[i].closed_qty > 0
    /\ \E j \in 1..Len(applied) :
          applied[j].trade.side = EXPIRE_SIDE /\ applied[j].closed_qty = 0

-----------------------------------------------------------------------------
(* Properties of the strategy key *)

\* the two lists hold the same legs the same number of times
SameLegs(a, b) ==
    /\ Len(a) = Len(b)
    /\ \A v \in LegChoices :
          Cardinality({i \in 1..Len(a) : a[i] = v})
             = Cardinality({i \in 1..Len(b) : b[i] = v})

\* C10: for the same name, kind, root and expiry, two leg lists that are
\* permutations of each other give the identical match key, and when root or
\* expiry is missing the key is strategy:<name> whatever the legs are.
C10_KeyIgnoresLegOrder ==
    keyOut # <<>> =>
        /\ SameLegs(keyArgs.legs, keyArgs.other) => keyOut[1] = keyOut[2]
        /\ (keyArgs.root = NoRoot \/ keyArgs.exp_date = NoDate) =>
              /\ keyOut[1] = <<"strategy", keyArgs.name>>
              /\ keyOut[2] = <<"strategy", keyArgs.name>>

\* two different orders of three legs, two of them equal, got one full key
C10_Witness ==
    /\ keyOut # <<>>
    /\ Len(keyArgs.legs) = 3
    /\ SameLegs(keyArgs.legs, keyArgs.other)
    /\ keyArgs.legs # keyArgs.other
    /\ keyArgs.legs[1] = keyArgs.legs[3]
    /\ Len(keyOut[1]) = 5
    /\ keyOut[1] = keyOut[2]

-----------------------------------------------------------------------------
(* Properties of the normalizer *)

\* the rows parse_csv hands to build_option_trade: accepted rows of an
\* options file with a symbol that are neither a parent nor a skipped leg
OptionRows ==
    {i \in 1..Len(csv.rows) :
        /\ csv.is_options
        /\ ~CoreDropped(csv.rows[i])
        /\ csv.rows[i].Symbol # <<>>
        /\ ~SkipsLeg(csv.rows[i], ParentTimes(csv.rows))}

\* C7: no option symbol makes the normalizer fail: no error propagates out of
\* parse_csv, also for a symbol of the grammar whose 6 digits are no calendar
\* date, and every row handed to build_option_trade yields a Trade with
\* match key option:<symbol>, with the parsed expiry and Call/Put kind when
\* the symbol parses and with kind 'Option' and no expiry otherwise.
C7_NoSymbolFails ==
    parseOut.done =>
        /\ ~parseOut.error
        /\ \A i \in OptionRows :
              \E k \in 1..Len(parseOut.trades) :
                 /\ parseOut.origins[k] = i
                 /\ parseOut.trades[k].match_key = <<"option", csv.rows[i].Symbol>>
                 /\ \/ /\ parseOut.trades[k].option_kind \in {"Call", "Put"}
                       /\ parseOut.trades[k].expiry # NoDate
                    \/ /\ parseOut.trades[k].option_kind = "Option"
                       /\ parseOut.trades[k].expiry = NoDate

\* the rows with a symbol that share their Placed Time with a parent row
SiblingRows ==
    {i \in 1..Len(csv.rows) :
        /\ csv.rows[i].Symbol # <<>>
        /\ \E j \in 1..Len(csv.rows) :
              /\ csv.rows[j].Name # <<>>
              /\ csv.rows[j].Symbol = <<>>
              /\ csv.rows[j].Placed = csv.rows[i].Placed}

\* the rows whose symbol build_strategy_meta adds to a strategy's legs
LegRows ==
    {i \in 1..Len(csv.rows) :
        /\ csv.rows[i].Placed \in ParentTimes(csv.rows)
        /\ csv.rows[i].Symbol # <<>>
        /\ parse_option_symbol(csv.rows[i].Symbol).parsed}

\* the rows a Trade was made from
TradeRows == {parseOut.origins[k] : k \in 1..Len(parseOut.origins)}

\* C8: in an options file, every row with a symbol that shares its Placed
\* Time with a parent strategy row is consumed as a leg, whatever its Name
\* field holds: parse_csv makes no Trade from it; and the rows that
\* contribute legs to the strategy's match key make no Trade.
C8_LegsConsumed ==
    (parseOut.done /\ ~parseOut.error /\ csv.is_options) =>
        /\ SiblingRows \cap TradeRows = {}
        /\ LegRows \cap TradeRows = {}

=============================================================================
